---- MODULE Spec2Model ----
(***************************************************************************)
(* Model of the athena ingestion pipeline: FileProcessor (processor.py),   *)
(* DatabaseHandler.insert_data / session_scope (db_handler.py), the        *)
(* discovery loop of main (main.py) and load_csv_to_table                  *)
(* (csv_db_handler.py).                                                    *)
(*                                                                         *)
(* Persisted state is the control table (ledger), the target table (table) *)
(* and the file store (fs).  Everything else is the state of the single    *)
(* Python process and is lost when the process is terminated.              *)
(*                                                                         *)
(* A SQLAlchemy session is a unit of work: commit() writes the pending     *)
(* changes of the objects attached to THAT session, a failed commit rolls  *)
(* them back, and close() detaches every object.  session_scope() closes   *)
(* its session in its finally clause (db_handler.py line 84), so the       *)
(* control_record that process_file hands to _handle_error is detached,    *)
(* and _handle_error never adds it to the session it opens                 *)
(* (processor.py lines 150-160): its commit writes nothing.                *)
(***************************************************************************)
EXTENDS Integers, Sequences, FiniteSets, TLC

\* ------------------------------------------------------------ bounds
MaxChunks   == 2   \* the largest file fills MaxChunks batches
MaxAttempts == 2   \* calls of process_file
MaxFaults   == 1   \* failed commits, failed moves and terminations
MaxLoads    == 3   \* calls of load_csv_to_table
NumPatterns == 2   \* entries of config.file_patterns

\* ------------------------------------------------- program constants
batch_size == 1000   \* processor.py line 100
Null       == -1     \* a nullable Integer column that was never set

\* A NULL counter reads as 0.
Value(x) == IF x = Null THEN 0 ELSE x

\* ------------------------------------------------------- file store
\* A file name is <<base, n>>: base prefixed n times with the date stamp
\* "%Y%m%d_" (processor.py lines 134 and 156).  A path is <<folder, name>>.
Bases      == {"a"}
InputNames == {<<b, n>> : b \in Bases, n \in 0..1}
Names      == {<<b, n>> : b \in Bases, n \in 0..2}

\* f"{datetime.now().strftime('%Y%m%d')}_{file_name}"
Stamped(name) == <<name[1], name[2] + 1>>

\* re.match(pattern_config['pattern'], file): the first pattern of the
\* catalog matches every name, every other one only date-stamped names, so
\* that one pattern run lists several files and a stamped file matches
\* several patterns.
Matches(p, name) == (p > 1) => (name[2] > 0)

VARIABLES
  ledger,   \* file_processing_control: the committed rows, in id order
  table,    \* the target tables: committed row ranges, in commit order
  fs,       \* the file store: the set of paths that hold a file
  pc,       \* position of the process
  run,      \* main: [pat: pattern being processed, files: files still to do]
  cr,       \* process_file: the in-memory control_record object
  df,       \* process_file: the DataFrame read from the file
  loop,     \* _process_batches: [i, total_loaded]
  err,      \* process_file: str(e) of the exception caught at line 46
  retry,    \* retry_failed_files: [todo, sff, pending, scanned, routed]
  last,     \* history: what the calls made so far did
  count,    \* history: number of calls, arrivals and terminations so far
  csv,      \* CSVHandler: the raw rows of a file and what parsing them gave
  gate,     \* DataValidator: a frame, a table schema and validation_results
  prep      \* validate_and_prepare_data: records, a table schema, the result

vars == <<ledger, table, fs, pc, run, cr, df, loop, err, retry, last, count,
          csv, gate, prep>>

\* ----------------------------------------------------- file contents
\* What read_file, validate_data and the store make of a file:
\*   readable  read_file returns a DataFrame (else it raises)
\*   rows      len(df)
\*   valid     validate_data(df, table)['is_valid']
\*   bad       the first row the store rejects (0: none)
\*   lacking   the rows lo..hi that lack a column of the table which is
\*             NOT NULL and has no default (lo > hi: none); every row of a
\*             DataFrame has the columns of the frame, so there they are
\*             all the rows or none
\* An empty frame, and MaxChunks batches of which the last holds one row.
LongFile  == (MaxChunks - 1) * batch_size + 1
RowCounts == {0, LongFile}

NoRows == [lo |-> 1, hi |-> 0]

Frame(n, v, b) ==
  [readable |-> TRUE, rows |-> n, valid |-> v, bad |-> b, lacking |-> NoRows]

Contents ==
  {[Frame(0, TRUE, 0) EXCEPT !.readable = FALSE]}
  \cup {Frame(LongFile, FALSE, 0)}
  \cup {[Frame(LongFile, TRUE, 0) EXCEPT !.lacking = [lo |-> 1, hi |-> LongFile]]}
  \cup {Frame(n, TRUE, 0) : n \in RowCounts}
  \cup {Frame(LongFile, TRUE, b) : b \in {1, LongFile}}

NoFrame == [Frame(0, FALSE, 0) EXCEPT !.readable = FALSE]

\* ------------------------------------------------------ control rows
\* A record that always carries the same process_id instead of a fresh
\* uuid4.
ControlTableSameId(process_id, file_name, target_table) ==
  [process_id    |-> 1,
   file_name     |-> file_name,
   target_table  |-> target_table,
   status        |-> "INITIATED",
   total_rows    |-> Null,
   loaded_rows   |-> Null,
   error_message |-> "None",
   current_batch |-> Null,
   file_location |-> "INPUT"]

\* ControlTable(...) as constructed by process_file; the columns that are
\* not given are NULL.
ControlTable(process_id, file_name, target_table) ==
  [process_id    |-> process_id,
   file_name     |-> file_name,
   target_table  |-> target_table,
   status        |-> "INITIATED",
   total_rows    |-> Null,
   loaded_rows   |-> Null,
   error_message |-> "None",
   current_batch |-> Null,
   file_location |-> "INPUT"]

NoRecord == [id |-> 0, row |-> ControlTable(0, <<"a", 0>>, 0)]

Ids == 1..Len(ledger)

\* ------------------------------------------------------- file moves
\* LocalFileHandler.move_file: shutil.move raises when the source is
\* missing (or when the store fails: io_ok = FALSE), else the file is at
\* the destination and no longer at the source.
CanMove(io_ok, src) == io_ok /\ src \in fs

move_file(src, dst) == (fs \ {src}) \cup {dst}

\* --------------------------------------------------- the target table
Min(S) == CHOOSE x \in S : \A y \in S : x <= y

\* range(lo, hi, size) of insert_data line 174: the statements, one per
\* slice prepared_data[i:i + batch_size], as <<first row, last row>>.
RECURSIVE Statements(_, _, _)
Statements(lo, hi, size) ==
  IF lo > hi THEN <<>>
  ELSE <<<<lo, IF lo + size - 1 < hi THEN lo + size - 1 ELSE hi>>>>
         \o Statements(lo + size, hi, size)

\* Whether one of the rows lo..hi is among the rows some.
Among(some, lo, hi) == some.lo <= some.hi /\ some.lo <= hi /\ lo <= some.hi

\* A check of the first record only, as DatabaseHandler.validate_data
\* (lines 133-134) makes it.
validate_sample_record(lo, hi, lacking) == ~Among(lacking, lo, lo)

\* DatabaseHandler.validate_and_prepare_data(table_name, data) on the rows
\* lo..hi, lines 86-119: FALSE when it raises ValueError, which it does
\* at the first record that lacks a column that has no default and is not
\* nullable (lines 110-114); no data, no check (lines 88-89).
validate_and_prepare_data(lo, hi, lacking) == ~Among(lacking, lo, hi)

\* What insert_data gives when validate_and_prepare_data raises (line
\* 167): the session of line 172 was never opened.
Unprepared ==
  [ok |-> FALSE, prepared |-> FALSE, failed |-> 0, flushed |-> 0, committed |-> <<>>]

\* insert_data with a store that skips the row it rejects and keeps the
\* rest of the statement, and a session that is never rolled back.
insert_data_skipping(batch_no, lo, hi, bad, size, lacking) ==
  LET stmts  == Statements(lo, hi, size)
      reject == {k \in 1..Len(stmts) : stmts[k][1] <= bad /\ bad <= stmts[k][2]}
      failed == IF reject = {} THEN 0 ELSE Min(reject)
      kept   == IF failed = 0 THEN stmts
                ELSE SubSeq(stmts, 1, failed - 1)
                     \o (IF bad < stmts[failed][2]
                           THEN <<<<bad + 1, stmts[failed][2]>>>> ELSE <<>>)
  IN  IF ~validate_and_prepare_data(lo, hi, lacking) THEN Unprepared
      ELSE [ok        |-> failed = 0,
            prepared  |-> TRUE,
            failed    |-> failed,
            flushed   |-> Len(kept),
            committed |-> [k \in 1..Len(kept) |->
                            [batch_no |-> batch_no, lo |-> kept[k][1], hi |-> kept[k][2]]]]

\* DatabaseHandler.insert_data(table_name, data, batch_size) on rows lo..hi
\* of the frame loaded under batch_no, of which the store rejects row bad.
\* All statements run in ONE session_scope (line 172): each is executed and
\* flushed (lines 189-190), the first rejected one raises, the session is
\* rolled back (line 80) and nothing of the call is committed; without a
\* rejection the single commit of line 78 makes every row visible.
\* Before any of that, validate_and_prepare_data runs over all the rows
\* of the call (line 167).  The store rejects the row bad, and any row
\* that lacks a NOT NULL column without default.
\*   ok        the call returned (FALSE: it raised)
\*   prepared  validate_and_prepare_data returned
\*   failed    index of the statement the store rejected (0: none)
\*   flushed   statements sent before the exception or the commit
\*   committed what the call added to the table
insert_data(batch_no, lo, hi, bad, size, lacking) ==
  LET stmts   == Statements(lo, hi, size)
      reject  == {k \in 1..Len(stmts) :
                    \/ stmts[k][1] <= bad /\ bad <= stmts[k][2]
                    \/ Among(lacking, stmts[k][1], stmts[k][2])}
      failed  == IF reject = {} THEN 0 ELSE Min(reject)
      flushed == IF failed = 0 THEN stmts ELSE SubSeq(stmts, 1, failed - 1)
      rows    == [k \in 1..Len(flushed) |->
                    [batch_no |-> batch_no, lo |-> flushed[k][1], hi |-> flushed[k][2]]]
  IN  IF ~validate_and_prepare_data(lo, hi, lacking) THEN Unprepared
      ELSE [ok        |-> failed = 0,
            prepared  |-> TRUE,
            failed    |-> failed,
            flushed   |-> Len(flushed),
            committed |-> IF failed = 0 THEN rows ELSE <<>>]

\* What one insert_data call is remembered by.
InsertCall(batch_no, lo, hi, size, lacking, res) ==
  [batch_no |-> batch_no, lo |-> lo, hi |-> hi, size |-> size,
   failed |-> res.failed, before |-> Len(table), lacking |-> lacking,
   prepared |-> res.prepared, flushed |-> res.flushed]

\* ------------------------------------------------------- CSVHandler
MaxRows   == 2   \* rows of a raw file
MaxParses == 2   \* calls of process_csv_file on one file

\* The fields csv.reader gives (always str), and the rows it makes of them:
\* a blank line is the empty row, a short line has fewer fields than the
\* mappings read.
Fields == {"", " ", "1", "Yes", "maybe"}

\* str.strip() and str.lower() on Fields.
strip(value) == IF value = " " THEN "" ELSE value

lower(value) == IF value = "Yes" THEN "yes" ELSE value

\* table_config['column_mappings'] of the table's csv_mappings entry.
column_mappings ==
  <<[column_index |-> 0, db_column |-> "flag", data_type |-> "boolean",
     required |-> FALSE],
    [column_index |-> 1, db_column |-> "id", data_type |-> "integer",
     required |-> TRUE]>>

RawRows == UNION {[1..n -> Fields] : n \in 0..Len(column_mappings)}

RawFiles == UNION {[1..n -> RawRows] : n \in 0..MaxRows}

\* index_to_column, lines 57-60.
Indexed(col_idx) ==
  {k \in 1..Len(column_mappings) : column_mappings[k].column_index = col_idx}

index_to_column(col_idx) == column_mappings[CHOOSE k \in Indexed(col_idx) : TRUE]

\* A Python value: its type and its repr.
Py(type, repr) == [type |-> type, repr |-> repr]

None == Py("NoneType", "None")

\* int(value) and float(value) return on "1" alone of Fields; no field has
\* the form '%Y-%m-%d' or '%Y-%m-%d %H:%M:%S'.
Converted(value) == [ok |-> TRUE, value |-> value]

ConversionError == [ok |-> FALSE, value |-> None]

\* CSVHandler._convert_data_type, lines 22-45: ok is FALSE when it raises
\* ValueError.
convert_data_type(value, data_type) ==
  IF value = "" THEN Converted(None)
  ELSE CASE data_type = "string"  -> Converted(Py("str", strip(value)))
         [] data_type = "integer" ->
              IF value = "1" THEN Converted(Py("int", "1")) ELSE ConversionError
         [] data_type = "float" ->
              IF value = "1" THEN Converted(Py("float", "1.0")) ELSE ConversionError
         [] data_type \in {"date", "datetime"} -> ConversionError
         [] data_type = "boolean" ->
              Converted(Py("bool",
                IF lower(value) \in {"true", "1", "yes", "y"} THEN "True" ELSE "False"))
         [] OTHER -> Converted(Py("str", strip(value)))

NoError == [kind |-> "none", row_num |-> 0, db_column |-> "none"]

\* The loop of lines 82-102 over the fields of one row, from col_idx on:
\* the record so far is a function from the db columns that were set.
RECURSIVE process_row(_, _, _, _)
process_row(row, row_num, col_idx, record) ==
  IF col_idx >= Len(row) THEN [ok |-> TRUE, error |-> NoError, record |-> record]
  ELSE IF Indexed(col_idx) = {} THEN process_row(row, row_num, col_idx + 1, record)
  ELSE LET mapping == index_to_column(col_idx)
           value   == row[col_idx + 1]
           conv    == convert_data_type(value, mapping.data_type)
       IN  IF mapping.required /\ strip(value) = ""
             THEN [ok |-> FALSE, record |-> record,
                   error |-> [kind |-> "required", row_num |-> row_num,
                              db_column |-> mapping.db_column]]
           ELSE IF ~conv.ok
             THEN [ok |-> FALSE, record |-> record,
                   error |-> [kind |-> "conversion", row_num |-> row_num,
                              db_column |-> mapping.db_column]]
           ELSE process_row(row, row_num, col_idx + 1,
                            (mapping.db_column :> conv.value) @@ record)

\* The loop of lines 77-108 over the rows from row_num on: the first row
\* that raises ends the call, else processed_data is returned.
RECURSIVE process_rows(_, _, _)
process_rows(rows, row_num, processed_data) ==
  IF row_num > Len(rows) THEN [ok |-> TRUE, error |-> NoError, data |-> processed_data]
  ELSE LET res == process_row(rows[row_num], row_num, 0, <<>>) IN
         IF res.ok
           THEN process_rows(rows, row_num + 1, Append(processed_data, res.record))
           ELSE [ok |-> FALSE, error |-> res.error, data |-> <<>>]

\* What a handler has parsed so far: the raw rows of its file, the result
\* of the last call and of the one before, the number of calls.
NoParse == [ok |-> TRUE, error |-> NoError, data |-> <<>>]

NoCsv == [rows |-> <<>>, out |-> NoParse, prev |-> NoParse, calls |-> 0]

\* ---------------------------------------------------- DataValidator
\* The frames handed to validate_data have the columns df_columns and up
\* to MaxRows rows of dtype object: a cell is NaN or a str.
df_columns == <<"n", "s">>

Cells == {"NaN", "20200101", "2020-01-01", "ab"}

FrameRows == [{df_columns[k] : k \in 1..Len(df_columns)} -> Cells]

Frames == UNION {[1..n -> FrameRows] : n \in 0..MaxRows}

\* str(col['type']) of a reflected column: the type name, and the length
\* in brackets when the column declares one (length 0: it declares none,
\* the string has no bracket).
ColTypes ==
  {[name |-> "INTEGER", length |-> 0], [name |-> "DATE", length |-> 0],
   [name |-> "TEXT", length |-> 0], [name |-> "VARCHAR", length |-> 0],
   [name |-> "VARCHAR", length |-> 3]}

\* get_table_columns(table_name): the columns of the table, which need
\* not be those of the frame.
Schemas ==
  UNION {[S -> ColTypes] : S \in SUBSET {df_columns[k] : k \in 1..Len(df_columns)}}

\* df[col].astype(str) of a cell, its str.len(), str.match(r'^\d+$') and
\* whether pd.to_datetime takes it.
astype_str(cell) == IF cell = "NaN" THEN "nan" ELSE cell

str_len(text) ==
  CASE text = "nan" -> 3 [] text = "ab" -> 2 [] text = "20200101" -> 8
    [] text = "2020-01-01" -> 10

str_match_digits(text) == text = "20200101"

to_datetime_ok(cell) == cell # "ab"

Flagged(check, col, rows) == [check |-> check, col |-> col, rows |-> rows]

\* df[mask].index.tolist(): the rows from k on, in index order, at which
\* the boolean mask is True.
RECURSIVE index_tolist(_, _)
index_tolist(mask, k) ==
  IF k > Len(mask) THEN <<>>
  ELSE (IF mask[k] THEN <<k>> ELSE <<>>) \o index_tolist(mask, k + 1)

Invalid(results, error) ==
  [results EXCEPT !.is_valid = FALSE, !.errors = Append(@, error)]

\* validate_data lines 38-71, from column k of df.columns on.  The
\* int(str(col_type).split('(')[1]...) of line 65 raises IndexError when
\* the VARCHAR column declares no length: the call ends there (raised).
RECURSIVE check_columns(_, _, _, _)
check_columns(frame, table_cols, k, results) ==
  IF k > Len(df_columns) THEN results
  ELSE LET col == df_columns[k] IN
    IF col \notin DOMAIN table_cols
      THEN check_columns(frame, table_cols, k + 1, results)
    ELSE LET col_type == table_cols[col] IN
      CASE col_type.name = "INTEGER" ->
             LET mask == [i \in 1..Len(frame) |->
                            ~str_match_digits(astype_str(frame[i][col]))]
                 non_numeric == index_tolist(mask, 1)
             IN  check_columns(frame, table_cols, k + 1,
                   IF non_numeric # <<>>
                     THEN Invalid(results, Flagged("non_numeric", col, non_numeric))
                     ELSE results)
        [] col_type.name = "DATE" ->
             check_columns(frame, table_cols, k + 1,
               IF \E i \in 1..Len(frame) : ~to_datetime_ok(frame[i][col])
                 THEN Invalid(results, Flagged("date", col, <<>>))
                 ELSE results)
        [] col_type.name = "VARCHAR" ->
             IF col_type.length = 0
               THEN [results EXCEPT !.raised = TRUE]
               ELSE LET mask == [i \in 1..Len(frame) |->
                                   str_len(astype_str(frame[i][col])) > col_type.length]
                        too_long == index_tolist(mask, 1)
                    IN  check_columns(frame, table_cols, k + 1,
                          IF too_long # <<>>
                            THEN Invalid(results, Flagged("too_long", col, too_long))
                            ELSE results)
        [] OTHER -> check_columns(frame, table_cols, k + 1, results)

\* DataValidator.validate_data(df, table_name), lines 10-73: the empty
\* rows (lines 30-35), then the columns.
validation_results(frame, table_cols) ==
  LET mask == [i \in 1..Len(frame) |->
                 \A c \in DOMAIN frame[i] : frame[i][c] = "NaN"]
      empty_rows == index_tolist(mask, 1)
      start      == [raised |-> FALSE, is_valid |-> TRUE, errors |-> <<>>]
  IN  check_columns(frame, table_cols, 1,
        IF empty_rows # <<>>
          THEN Invalid(start, Flagged("empty_rows", "none", empty_rows))
          ELSE start)

NoGate == [df |-> <<>>, table_cols |-> <<>>, called |-> FALSE,
           results |-> [raised |-> FALSE, is_valid |-> TRUE, errors |-> <<>>]]

\* ------------------------------------- validate_and_prepare_data
\* columns.items() of get_table_columns(table_name), in table order: the
\* table has the columns table_columns, each with a server default or none
\* ("None") and nullable or not.
table_columns == <<"id", "flag">>

ColumnInfos == [default : {"None", "now()"}, nullable : BOOLEAN]

TableInfos == [{table_columns[k] : k \in 1..Len(table_columns)} -> ColumnInfos]

\* The records handed to insert_data: dicts with some of the columns of the
\* table, and perhaps a key the table does not have.
RecordValues ==
  [id    : {None, Py("int", "1")},
   flag  : {None, Py("bool", "True")},
   extra : {Py("str", "x")}]

Restricted(record, keys) == [key \in keys |-> record[key]]

Records ==
  {Restricted(record, keys) : record \in RecordValues,
                              keys \in SUBSET {"id", "flag", "extra"}}

RecordLists == UNION {[1..n -> Records] : n \in 0..MaxRows}

\* A reconciliation that asks whether the column is nullable before it asks
\* for a default.
RECURSIVE prepare_record_nulling(_, _, _, _)
prepare_record_nulling(record, columns, k, prepared_record) ==
  IF k > Len(table_columns) THEN [ok |-> TRUE, record |-> prepared_record]
  ELSE LET col_name == table_columns[k]
           col_info == columns[col_name]
       IN  IF col_name \in DOMAIN record
             THEN prepare_record_nulling(record, columns, k + 1,
                                 (col_name :> record[col_name]) @@ prepared_record)
           ELSE IF col_info.nullable
             THEN prepare_record_nulling(record, columns, k + 1,
                                 (col_name :> None) @@ prepared_record)
           ELSE IF col_info.default # "None"
             THEN prepare_record_nulling(record, columns, k + 1, prepared_record)
           ELSE [ok |-> FALSE, record |-> prepared_record]

\* The loop of lines 101-114 over the columns of the table, from the k-th
\* on, for one record: FALSE for ok when line 114 raises ValueError.
RECURSIVE prepare_record(_, _, _, _)
prepare_record(record, columns, k, prepared_record) ==
  IF k > Len(table_columns) THEN [ok |-> TRUE, record |-> prepared_record]
  ELSE LET col_name == table_columns[k]
           col_info == columns[col_name]
       IN  IF col_name \in DOMAIN record
             THEN prepare_record(record, columns, k + 1,
                                 (col_name :> record[col_name]) @@ prepared_record)
           ELSE IF col_info.default # "None"
             THEN prepare_record(record, columns, k + 1, prepared_record)
           ELSE IF col_info.nullable
             THEN prepare_record(record, columns, k + 1,
                                 (col_name :> None) @@ prepared_record)
           ELSE [ok |-> FALSE, record |-> prepared_record]

\* The loop of lines 97-117 over the records from idx on.
RECURSIVE prepare_records(_, _, _, _)
prepare_records(data, columns, idx, prepared_data) ==
  IF idx > Len(data) THEN [ok |-> TRUE, idx |-> 0, data |-> prepared_data]
  ELSE LET res == prepare_record(data[idx], columns, 1, <<>>) IN
         IF res.ok
           THEN prepare_records(data, columns, idx + 1,
                                Append(prepared_data, res.record))
           ELSE [ok |-> FALSE, idx |-> idx, data |-> <<>>]

\* DatabaseHandler.validate_and_prepare_data(table_name, data), lines
\* 86-119, on the records themselves: no data gives [] (lines 88-89).
prepared_data(data, columns) ==
  IF data = <<>> THEN [ok |-> TRUE, idx |-> 0, data |-> <<>>]
  ELSE prepare_records(data, columns, 1, <<>>)

NoPrep == [data |-> <<>>, columns |-> <<>>, called |-> FALSE,
           out |-> [ok |-> TRUE, idx |-> 0, data |-> <<>>]]

\* ------------------------------------------------------------- Init
NoRun   == [pat |-> 0, files |-> <<>>]
NoLoop  == [i |-> 0, total_loaded |-> 0]
NoRetry == [todo |-> <<>>, sff |-> TRUE, pending |-> {}, scanned |-> {},
            routed |-> {}]
NoLast  == [ins |-> [batch_no |-> 0, lo |-> 1, hi |-> 0, size |-> 0,
                     failed |-> 0, before |-> 0, lacking |-> NoRows,
                     prepared |-> TRUE, flushed |-> 0],
            id |-> 0, stage |-> "none", message |-> "None", failed_batch |-> 0,
            nvalid |-> 0, verdict |-> "none"]
NoCount == [attempts |-> 0, faults |-> 0, loads |-> 0]

\* The store or the file system fails, or the process is terminated, at
\* most MaxFaults times.
Fault(ok) == IF ok THEN 0 ELSE 1

Allowed(k) == count.faults + k <= MaxFaults

\* The control table is durable and outlives the process (main.py line 19:
\* create_all keeps an existing table).  At start-up it is empty and the
\* files InputNames wait in the input folder; or it holds the ERROR row of
\* an earlier attempt on file "a" that failed in its second batch, with
\* that file in the error folder, under the stamped name _handle_error
\* gives it or under the plain name _retry_file looks for, and the other
\* file waiting in the input folder.
StartRow ==
  [ControlTable(0, <<"a", 0>>, 1) EXCEPT
     !.status = "ERROR", !.file_location = "ERROR", !.error_message = "batch",
     !.total_rows = batch_size + 1, !.loaded_rows = batch_size, !.current_batch = 2]

StartTable == <<[batch_no |-> 0, lo |-> 1, hi |-> batch_size]>>

\* No process runs and nothing was called yet.
Idle ==
  /\ pc = "stopped"
  /\ run = NoRun
  /\ cr = NoRecord
  /\ df = NoFrame
  /\ loop = NoLoop
  /\ err = "None"
  /\ retry = NoRetry
  /\ last = NoLast
  /\ count = NoCount

Quiet ==
  /\ Idle
  /\ csv = NoCsv
  /\ gate = NoGate
  /\ prep = NoPrep

Init ==
  /\ \/ /\ ledger = <<>>
        /\ table = <<>>
        /\ fs = {<<"INPUT", n>> : n \in InputNames}
     \/ \E n \in InputNames :
          /\ ledger = <<StartRow>>
          /\ table = StartTable
          /\ fs = {<<"INPUT", m>> : m \in InputNames \ {StartRow.file_name}}
                  \cup {<<"ERROR", n>>}
  /\ Quiet

\* ------------------------------------------------------ environment
\* The process is terminated between two steps: its memory is lost, open
\* transactions are rolled back by the store; ledger, table and fs stay.
Crash ==
  /\ pc # "stopped"
  /\ Allowed(1)
  /\ pc' = "stopped"
  /\ run' = NoRun
  /\ cr' = NoRecord
  /\ df' = NoFrame
  /\ loop' = NoLoop
  /\ err' = "None"
  /\ retry' = NoRetry
  /\ count' = [count EXCEPT !.faults = @ + 1]
  /\ UNCHANGED <<ledger, table, fs, last, csv, gate, prep>>

\* ------------------------------------------------------------- main
\* Every order of a finite set: os.listdir gives no order.
RECURSIVE Orders(_)
Orders(S) ==
  IF S = {} THEN {<<>>}
  ELSE UNION {{<<x>> \o o : o \in Orders(S \ {x})} : x \in S}

\* main(): a run starts with the first pattern of config.file_patterns.
main ==
  /\ pc = "stopped"
  /\ pc' = "list"
  /\ run' = [pat |-> 1, files |-> <<>>]
  /\ UNCHANGED <<ledger, table, fs, cr, df, loop, err, retry, last, count,
                 csv, gate, prep>>

\* file_handler.list_files(pattern_config['pattern']): the files of the
\* input folder whose name matches, then the loop over them.
list_files ==
  /\ pc = "list"
  /\ run.pat <= NumPatterns
  /\ \E files \in Orders({n \in Names : <<"INPUT", n>> \in fs /\ Matches(run.pat, n)}) :
       run' = [run EXCEPT !.files = files]
  /\ pc' = "loop"
  /\ UNCHANGED <<ledger, table, fs, cr, df, loop, err, retry, last, count,
                 csv, gate, prep>>

\* The files of this pattern are done: on to the next pattern.
next_pattern ==
  /\ pc = "loop"
  /\ run.files = <<>>
  /\ run' = [pat |-> run.pat + 1, files |-> <<>>]
  /\ pc' = "list"
  /\ UNCHANGED <<ledger, table, fs, cr, df, loop, err, retry, last, count,
                 csv, gate, prep>>

\* The patterns are done: main returns.
main_return ==
  /\ pc = "list"
  /\ run.pat > NumPatterns
  /\ pc' = "stopped"
  /\ run' = NoRun
  /\ UNCHANGED <<ledger, table, fs, cr, df, loop, err, retry, last, count,
                 csv, gate, prep>>

\* ----------------------------------------------------- process_file
\* session.commit() of the session the control_record is attached to:
\* the row is written as the object stands.
Commit(rec) == [ledger EXCEPT ![rec.id] = rec.row]

\* process_file returns to the loop of main; its locals are gone.
Return ==
  /\ pc' = "loop"
  /\ cr' = NoRecord
  /\ df' = NoFrame
  /\ loop' = NoLoop
  /\ err' = "None"

\* The exception leaves the with block of process_file: session_scope
\* rolls back and closes, line 46 catches it and calls _handle_error.
Raise(stage, message) ==
  /\ pc' = "handle_error"
  /\ err' = message
  /\ last' = [last EXCEPT !.stage = stage, !.message = message]

\* process_file lines 17-34, called by the loop of main for the next file:
\* a fresh process_id, the INITIATED record, session.add and the first
\* commit (the INSERT, which gives the row its id).
process_file(db_ok) ==
  /\ pc = "loop"
  /\ run.files # <<>>
  /\ count.attempts < MaxAttempts
  /\ Allowed(Fault(db_ok))
  /\ LET rec == ControlTable(count.attempts + 1, Head(run.files), run.pat) IN
       /\ run' = [run EXCEPT !.files = Tail(@)]
       /\ count' = [count EXCEPT !.attempts = @ + 1, !.faults = @ + Fault(db_ok)]
       /\ df' = NoFrame
       /\ loop' = NoLoop
       /\ IF db_ok
            THEN /\ ledger' = Append(ledger, rec)
                 /\ cr' = [id |-> Len(ledger) + 1, row |-> rec]
                 /\ pc' = "in_progress"
                 /\ err' = "None"
                 /\ last' = [last EXCEPT !.id = Len(ledger) + 1, !.stage = "none",
                                         !.message = "None", !.failed_batch = 0,
                                         !.nvalid = 0, !.verdict = "none"]
            ELSE /\ ledger' = ledger
                 /\ cr' = [id |-> 0, row |-> rec]
                 /\ pc' = "handle_error"
                 /\ err' = "commit"
                 /\ last' = [last EXCEPT !.id = 0, !.stage = "open",
                                         !.message = "commit", !.failed_batch = 0,
                                         !.nvalid = 0, !.verdict = "none"]
  /\ UNCHANGED <<table, fs, retry, csv, gate, prep>>

\* process_file lines 36-38.
in_progress(db_ok) ==
  /\ Allowed(Fault(db_ok))
  /\ pc = "in_progress"
  /\ LET rec == [cr EXCEPT !.row.status = "IN_PROGRESS"] IN
       IF db_ok
         THEN /\ cr' = rec
              /\ ledger' = Commit(rec)
              /\ pc' = "read"
              /\ UNCHANGED <<err, last>>
         ELSE /\ Raise("open", "commit")
              /\ UNCHANGED <<cr, ledger>>
  /\ UNCHANGED <<table, fs, run, df, loop, retry, csv, gate, prep>>
  /\ count' = [count EXCEPT !.faults = @ + Fault(db_ok)]

\* _process_file_content lines 52-62: read_file, total_rows, commit.
read_file(content, db_ok) ==
  /\ Allowed(Fault(db_ok))
  /\ db_ok \/ (content.readable /\ <<"INPUT", cr.row.file_name>> \in fs)
  /\ pc = "read"
  /\ IF content.readable /\ <<"INPUT", cr.row.file_name>> \in fs
       THEN LET rec == [cr EXCEPT !.row.total_rows = content.rows] IN
              IF db_ok
                THEN /\ df' = content
                     /\ cr' = rec
                     /\ ledger' = Commit(rec)
                     /\ pc' = "validate"
                     /\ UNCHANGED <<err, last>>
                ELSE /\ Raise("commit", "commit")
                     /\ UNCHANGED <<cr, df, ledger>>
       ELSE /\ Raise("read", "read")
            /\ UNCHANGED <<cr, df, ledger>>
  /\ UNCHANGED <<table, fs, run, loop, retry, csv, gate, prep>>
  /\ count' = [count EXCEPT !.faults = @ + Fault(db_ok)]

\* _process_file_content without the raise of lines 70-71: the verdict of
\* validate_data is ignored.
validate_data_ignored ==
  /\ pc = "validate"
  /\ pc' = "batch"
  /\ loop' = [i |-> 0, total_loaded |-> 0]
  /\ last' = [last EXCEPT !.nvalid = @ + 1,
                          !.verdict = IF df.valid THEN "valid" ELSE "rejected"]
  /\ UNCHANGED <<ledger, table, fs, run, cr, df, err, retry, count,
                 csv, gate, prep>>

\* _process_batches started where the latest requeued record of the same
\* file says loading stopped, instead of at row 0.
validate_data_resuming ==
  /\ pc = "validate"
  /\ LET earlier == {id \in Ids : /\ ledger[id].status = "PENDING_RETRY"
                                  /\ ledger[id].file_name = cr.row.file_name}
         from    == IF earlier = {} THEN 0
                    ELSE Value(ledger[CHOOSE id \in earlier :
                                        \A other \in earlier : other <= id].loaded_rows)
     IN  IF df.valid
           THEN /\ pc' = "batch"
                /\ loop' = [i |-> from, total_loaded |-> from]
                /\ last' = [last EXCEPT !.nvalid = @ + 1, !.verdict = "valid"]
                /\ err' = err
           ELSE /\ pc' = "handle_error"
                /\ err' = "validation"
                /\ last' = [last EXCEPT !.nvalid = @ + 1, !.verdict = "rejected",
                                        !.stage = "validation", !.message = "validation"]
                /\ loop' = loop
  /\ UNCHANGED <<ledger, table, fs, run, cr, df, retry, count, csv, gate, prep>>

\* _process_file_content lines 64-78: validate_data on the whole frame,
\* ValueError when it is not valid, else the metadata column and the start
\* of _process_batches (lines 100-101).
validate_data ==
  /\ pc = "validate"
  /\ IF df.valid
       THEN /\ pc' = "batch"
            /\ loop' = [i |-> 0, total_loaded |-> 0]
            /\ last' = [last EXCEPT !.nvalid = @ + 1, !.verdict = "valid"]
            /\ err' = err
       ELSE /\ pc' = "handle_error"
            /\ err' = "validation"
            /\ last' = [last EXCEPT !.nvalid = @ + 1, !.verdict = "rejected",
                                    !.stage = "validation", !.message = "validation"]
            /\ loop' = loop
  /\ UNCHANGED <<ledger, table, fs, run, cr, df, retry, count, csv, gate, prep>>

\* i // batch_size + 1
BatchNo(i) == (i \div batch_size) + 1

\* A batch counted as full whatever is left of the frame.
BatchLenFull(i, n) == batch_size

\* len(df.iloc[i:i + batch_size])
BatchLen(i, n) == IF i + batch_size < n THEN batch_size ELSE n - i

\* _process_batches lines 105-111: the next batch, current_batch, commit.
batch_begin(db_ok) ==
  /\ Allowed(Fault(db_ok))
  /\ pc = "batch"
  /\ loop.i < df.rows
  /\ LET rec == [cr EXCEPT !.row.current_batch = BatchNo(loop.i)] IN
       IF db_ok
         THEN /\ cr' = rec
              /\ ledger' = Commit(rec)
              /\ pc' = "insert"
              /\ UNCHANGED <<err, last>>
         ELSE /\ pc' = "handle_error"
              /\ err' = "batch"
              /\ last' = [last EXCEPT !.stage = "commit", !.message = "batch"]
              /\ UNCHANGED <<cr, ledger>>
  /\ UNCHANGED <<table, fs, run, df, loop, retry, csv, gate, prep>>
  /\ count' = [count EXCEPT !.faults = @ + Fault(db_ok)]

\* _process_batches with an except that logs the failed batch and goes on
\* with the next one instead of raising (line 126).
batch_insert_continuing ==
  /\ pc = "insert"
  /\ LET lo  == loop.i + 1
         hi  == loop.i + BatchLen(loop.i, df.rows)
         res == insert_data(cr.row.process_id, lo, hi, df.bad, batch_size,
                            df.lacking)
     IN  /\ table' = table \o res.committed
         /\ err' = err
         /\ IF res.ok
              THEN /\ pc' = "advance"
                   /\ loop' = loop
                   /\ last' = [last EXCEPT !.ins =
                        InsertCall(cr.row.process_id, lo, hi, batch_size, df.lacking, res)]
              ELSE /\ pc' = "batch"
                   /\ loop' = [loop EXCEPT !.i = @ + batch_size]
                   /\ last' = [last EXCEPT !.ins =
                        InsertCall(cr.row.process_id, lo, hi, batch_size, df.lacking, res),
                        !.stage = "batch", !.message = "batch",
                        !.failed_batch = BatchNo(loop.i)]
  /\ UNCHANGED <<ledger, fs, run, cr, df, retry, count, csv, gate, prep>>

\* _process_batches lines 113-116: insert_data on the rows of the batch,
\* in its own session and transaction.
batch_insert ==
  /\ pc = "insert"
  /\ LET lo  == loop.i + 1
         hi  == loop.i + BatchLen(loop.i, df.rows)
         res == insert_data(cr.row.process_id, lo, hi, df.bad, batch_size,
                            df.lacking)
     IN  /\ table' = table \o res.committed
         /\ IF res.ok
              THEN /\ pc' = "advance"
                   /\ err' = err
                   /\ last' = [last EXCEPT !.ins =
                        InsertCall(cr.row.process_id, lo, hi, batch_size, df.lacking, res)]
              ELSE /\ pc' = "handle_error"
                   /\ err' = "batch"
                   /\ last' = [last EXCEPT !.ins =
                        InsertCall(cr.row.process_id, lo, hi, batch_size, df.lacking, res),
                        !.stage = "batch", !.message = "batch",
                        !.failed_batch = BatchNo(loop.i)]
  /\ UNCHANGED <<ledger, fs, run, cr, df, loop, retry, count, csv, gate, prep>>

\* _process_batches lines 118-120: total_loaded, loaded_rows, commit.
batch_advance(db_ok) ==
  /\ Allowed(Fault(db_ok))
  /\ pc = "advance"
  /\ LET total == loop.total_loaded + BatchLen(loop.i, df.rows)
         rec   == [cr EXCEPT !.row.loaded_rows = total]
     IN  IF db_ok
           THEN /\ cr' = rec
                /\ ledger' = Commit(rec)
                /\ loop' = [i |-> loop.i + batch_size, total_loaded |-> total]
                /\ pc' = "batch"
                /\ UNCHANGED <<err, last>>
           ELSE /\ pc' = "handle_error"
                /\ err' = "batch"
                /\ last' = [last EXCEPT !.stage = "commit", !.message = "batch"]
                /\ UNCHANGED <<cr, ledger, loop>>
  /\ UNCHANGED <<table, fs, run, df, retry, csv, gate, prep>>
  /\ count' = [count EXCEPT !.faults = @ + Fault(db_ok)]

\* _archive_file with lines 138-140 before the move of line 136: SUCCESS is
\* committed first.
archive_file_late_move(io_ok) ==
  /\ Allowed(Fault(io_ok))
  /\ pc = "batch"
  /\ loop.i >= df.rows
  /\ LET src == <<"INPUT", cr.row.file_name>>
         dst == <<"ARCHIVE", Stamped(cr.row.file_name)>>
         rec == [cr EXCEPT !.row.status = "SUCCESS", !.row.file_location = "ARCHIVE"]
     IN  /\ ledger' = [ledger EXCEPT ![rec.id] = rec.row]
         /\ cr' = rec
         /\ IF CanMove(io_ok, src)
              THEN /\ fs' = move_file(src, dst)
                   /\ pc' = "success"
                   /\ UNCHANGED <<err, last>>
              ELSE /\ pc' = "handle_error"
                   /\ err' = "move"
                   /\ last' = [last EXCEPT !.stage = "archive", !.message = "move"]
                   /\ fs' = fs
  /\ count' = [count EXCEPT !.faults = @ + Fault(io_ok)]
  /\ UNCHANGED <<table, run, df, loop, retry, csv, gate, prep>>

\* _archive_file lines 132-136, reached when range(0, len(df), batch_size)
\* is exhausted: the move to the archive folder.
archive_file(io_ok) ==
  /\ Allowed(Fault(io_ok))
  /\ io_ok \/ <<"INPUT", cr.row.file_name>> \in fs
  /\ pc = "batch"
  /\ loop.i >= df.rows
  /\ LET src == <<"INPUT", cr.row.file_name>>
         dst == <<"ARCHIVE", Stamped(cr.row.file_name)>>
     IN  IF CanMove(io_ok, src)
           THEN /\ fs' = move_file(src, dst)
                /\ pc' = "success"
                /\ UNCHANGED <<err, last>>
           ELSE /\ Raise("archive", "move")
                /\ fs' = fs
  /\ UNCHANGED <<ledger, table, run, cr, df, loop, retry, csv, gate, prep>>
  /\ count' = [count EXCEPT !.faults = @ + Fault(io_ok)]

\* _archive_file lines 138-140 and the commit of session_scope line 78
\* when the with block of process_file is left.
archive_commit(db_ok, exit_ok) ==
  /\ Allowed(Fault(db_ok) + Fault(exit_ok))
  /\ db_ok \/ exit_ok
  /\ pc = "success"
  /\ LET rec == [cr EXCEPT !.row.status = "SUCCESS", !.row.file_location = "ARCHIVE"] IN
       IF db_ok
         THEN /\ ledger' = Commit(rec)
              /\ IF exit_ok
                   THEN /\ Return
                        /\ last' = [last EXCEPT !.stage = "done"]
                   ELSE /\ Raise("commit", "commit")
                        /\ cr' = rec
                        /\ UNCHANGED <<df, loop>>
         ELSE /\ Raise("commit", "commit")
              /\ UNCHANGED <<cr, ledger, df, loop>>
  /\ count' = [count EXCEPT !.faults = @ + Fault(db_ok) + Fault(exit_ok)]
  /\ UNCHANGED <<table, fs, run, retry, csv, gate, prep>>

\* A commit of a session the record was added to: the row is written.
AttachedCommit(rec) == [ledger EXCEPT ![rec.id] = rec.row]

\* session.commit() of a session the record is NOT attached to: the
\* session has nothing to write, the table keeps its rows.
DetachedCommit(rec) == ledger

\* _handle_error without the except of lines 162-165: a failed move leaves
\* process_file and main, and the run is over.
handle_error_raising(io_ok) ==
  /\ Allowed(Fault(io_ok))
  /\ pc = "handle_error"
  /\ LET src == <<"INPUT", cr.row.file_name>>
         dst == <<"ERROR", Stamped(cr.row.file_name)>>
     IN  IF io_ok /\ src \in fs
           THEN /\ fs' = (fs \ {src}) \cup {dst}
                /\ pc' = "loop"
                /\ run' = run
           ELSE /\ fs' = fs
                /\ pc' = "stopped"
                /\ run' = NoRun
  /\ cr' = NoRecord
  /\ df' = NoFrame
  /\ loop' = NoLoop
  /\ err' = "None"
  /\ count' = [count EXCEPT !.faults = @ + Fault(io_ok)]
  /\ UNCHANGED <<ledger, table, retry, last, csv, gate, prep>>

\* _handle_error lines 149-165.  The record is detached (its session was
\* closed when the with block of process_file was left) and is not added
\* to the session opened here: status, error_message and file_location
\* change on the object only, and the commit of line 160 writes no row.
\* A failed move is logged and swallowed (lines 162-165).  Then
\* process_file returns and its locals are gone.
handle_error(io_ok) ==
  /\ Allowed(Fault(io_ok))
  /\ io_ok \/ <<"INPUT", cr.row.file_name>> \in fs
  /\ pc = "handle_error"
  /\ LET src    == <<"INPUT", cr.row.file_name>>
         dst    == <<"ERROR", Stamped(cr.row.file_name)>>
         marked == [cr EXCEPT !.row.status = "ERROR", !.row.error_message = err]
         moved  == [marked EXCEPT !.row.file_location = "ERROR"]
     IN  IF CanMove(io_ok, src)
           THEN /\ fs' = move_file(src, dst)
                /\ ledger' = DetachedCommit(moved)
           ELSE /\ fs' = fs
                /\ ledger' = ledger
  /\ Return
  /\ count' = [count EXCEPT !.faults = @ + Fault(io_ok)]
  /\ UNCHANGED <<table, run, retry, last, csv, gate, prep>>

\* ---------------------------------------------- retry_failed_files
\* A commit that resets every row of the table as soon as one reset is
\* pending.
FlushEvery(rows, pending) ==
  [id \in 1..Len(rows) |->
     IF pending # {}
       THEN [rows[id] EXCEPT !.current_batch = 0, !.loaded_rows = 0]
       ELSE rows[id]]

\* The rows the session of retry_failed_files writes at a commit: the
\* rows whose current_batch and loaded_rows were set to 0 (lines 185-186)
\* and not yet committed.
Flush(rows, pending) ==
  [id \in 1..Len(rows) |->
     IF id \in pending
       THEN [rows[id] EXCEPT !.current_batch = 0, !.loaded_rows = 0]
       ELSE rows[id]]

\* A filter that also takes the rows still marked IN_PROGRESS.
IsFailedOrStuck(row) == row.status \in {"ERROR", "IN_PROGRESS"}

\* The filter of the query, line 171.
IsFailed(row) == row.status = "ERROR"

\* retry_failed_files lines 169-172: the query for the ERROR rows.
\* scanned remembers the rows that were ERROR when the query ran, routed
\* those of them whose file was then in the error folder under the name
\* _handle_error gives it (processor.py lines 154-158).
retry_failed_files(start_from_failure) ==
  /\ pc = "stopped"
  /\ \E todo \in Orders({id \in Ids : IsFailed(ledger[id])}) :
       retry' = [todo |-> todo, sff |-> start_from_failure, pending |-> {},
                 scanned |-> {id \in Ids : ledger[id].status = "ERROR"},
                 routed  |-> {id \in Ids :
                                /\ ledger[id].status = "ERROR"
                                /\ <<"ERROR", Stamped(ledger[id].file_name)>> \in fs}]
  /\ pc' = "retry"
  /\ UNCHANGED <<ledger, table, fs, run, cr, df, loop, err, last, count,
                 csv, gate, prep>>

\* _retry_file with the reset of lines 185-186 done for either value of
\* start_from_failure.
retry_file_resetting(io_ok, db_ok) ==
  /\ Allowed(Fault(io_ok) + Fault(db_ok))
  /\ pc = "retry"
  /\ retry.todo # <<>>
  /\ LET id      == Head(retry.todo)
         pending == retry.pending \cup {id}
         src     == <<"ERROR", ledger[id].file_name>>
         dst     == <<"INPUT", ledger[id].file_name>>
         reset   == [k \in 1..Len(ledger) |->
                       IF k \in pending
                         THEN [ledger[k] EXCEPT !.current_batch = 0, !.loaded_rows = 0]
                         ELSE ledger[k]]
     IN  IF io_ok /\ src \in fs
           THEN /\ fs' = (fs \ {src}) \cup {dst}
                /\ IF db_ok
                     THEN ledger' = [reset EXCEPT ![id].file_location = "INPUT",
                                                  ![id].status = "PENDING_RETRY"]
                     ELSE ledger' = ledger
                /\ retry' = [retry EXCEPT !.todo = Tail(@), !.pending = {}]
           ELSE /\ fs' = fs
                /\ ledger' = ledger
                /\ retry' = [retry EXCEPT !.todo = Tail(@), !.pending = pending]
  /\ UNCHANGED <<table, pc, run, cr, df, loop, err, last, csv, gate, prep>>
  /\ count' = [count EXCEPT !.faults = @ + Fault(io_ok) + Fault(db_ok)]

\* _retry_file lines 179-208 for the next row of the query.  The reset of
\* lines 185-186 is pending in the session; the commit of line 204 is only
\* reached when the move succeeded and writes everything pending; a failed
\* commit rolls the session back and is swallowed like a failed move.
retry_file(io_ok, db_ok) ==
  /\ Allowed(Fault(io_ok) + Fault(db_ok))
  /\ pc = "retry"
  /\ retry.todo # <<>>
  /\ io_ok \/ (db_ok /\ <<"ERROR", ledger[Head(retry.todo)].file_name>> \in fs)
  /\ db_ok \/ <<"ERROR", ledger[Head(retry.todo)].file_name>> \in fs
  /\ LET id      == Head(retry.todo)
         pending == IF retry.sff THEN retry.pending ELSE retry.pending \cup {id}
         src     == <<"ERROR", ledger[id].file_name>>
         dst     == <<"INPUT", ledger[id].file_name>>
     IN  IF CanMove(io_ok, src)
           THEN /\ fs' = move_file(src, dst)
                /\ IF db_ok
                     THEN ledger' = [Flush(ledger, pending) EXCEPT
                                       ![id].file_location = "INPUT",
                                       ![id].status = "PENDING_RETRY"]
                     ELSE ledger' = ledger
                /\ retry' = [retry EXCEPT !.todo = Tail(@), !.pending = {}]
           ELSE /\ fs' = fs
                /\ ledger' = ledger
                /\ retry' = [retry EXCEPT !.todo = Tail(@), !.pending = pending]
  /\ UNCHANGED <<table, pc, run, cr, df, loop, err, last, csv, gate, prep>>
  /\ count' = [count EXCEPT !.faults = @ + Fault(io_ok) + Fault(db_ok)]

\* A retry that processes the files it has requeued: on its way out it
\* opens a control record for the first of them.
retry_return_reprocessing(db_ok) ==
  /\ Allowed(Fault(db_ok))
  /\ pc = "retry"
  /\ retry.todo = <<>>
  /\ LET flushed  == IF db_ok THEN Flush(ledger, retry.pending) ELSE ledger
         requeued == {id \in retry.scanned : ledger[id].status = "PENDING_RETRY"}
     IN  ledger' = IF requeued = {} THEN flushed
                   ELSE Append(flushed,
                          ControlTable(count.attempts + 1,
                                       ledger[CHOOSE id \in requeued : TRUE].file_name, 1))
  /\ retry' = NoRetry
  /\ pc' = "stopped"
  /\ UNCHANGED <<table, fs, run, cr, df, loop, err, last, csv, gate, prep>>
  /\ count' = [count EXCEPT !.faults = @ + Fault(db_ok)]

\* The loop of line 174 is done: the with block is left and session_scope
\* commits what is still pending (line 78), or rolls it back.
retry_return(db_ok) ==
  /\ Allowed(Fault(db_ok))
  /\ pc = "retry"
  /\ retry.todo = <<>>
  /\ ledger' = IF db_ok THEN Flush(ledger, retry.pending) ELSE ledger
  /\ retry' = NoRetry
  /\ pc' = "stopped"
  /\ UNCHANGED <<table, fs, run, cr, df, loop, err, last, csv, gate, prep>>
  /\ count' = [count EXCEPT !.faults = @ + Fault(db_ok)]

\* ----------------------------------------------- load_csv_to_table
\* max(mapping['column_index'] for mapping in column_mappings) of the
\* table's csv_mappings entry: the mapping reads the columns 0 and 1.
max_col_index == 1

\* len(first_row) of the files handed to the loader.
FirstRows == 0..(max_col_index + 1)

\* CSVHandler.validate_csv_structure: True when the first row has more
\* than max_col_index columns, else it raises ValueError (FALSE).
validate_csv_structure(ncols) == ~(ncols <= max_col_index)

\* csv_db_handler.py lines 10-30: validate_csv_structure on the first row,
\* whose ValueError is logged and raised again (lines 28-30) before
\* anything is written; else the whole parsed file is handed to
\* insert_data in one call, with batch_size as the statement size.  The
\* function has no control record and moves no file.
load_csv_to_table(content, ncols) ==
  /\ pc = "stopped"
  /\ count.loads < MaxLoads
  /\ IF validate_csv_structure(ncols)
       THEN LET res == insert_data(Null, 1, content.rows, content.bad, batch_size,
                                   content.lacking) IN
              /\ table' = table \o res.committed
              /\ last' = [last EXCEPT
                            !.ins = InsertCall(Null, 1, content.rows, batch_size,
                                               content.lacking, res),
                            !.stage = "load", !.message = "None"]
       ELSE /\ table' = table
            /\ last' = [last EXCEPT
                          !.ins = [NoLast.ins EXCEPT !.before = Len(table)],
                          !.stage = "schema", !.message = "schema"]
  /\ count' = [count EXCEPT !.loads = @ + 1]
  /\ UNCHANGED <<ledger, fs, pc, run, cr, df, loop, err, retry,
                 csv, gate, prep>>

\* ------------------------------------------------------------- Next
Next ==
  \/ Crash
  \/ main
  \/ list_files
  \/ next_pattern
  \/ main_return
  \/ \E db_ok \in BOOLEAN : process_file(db_ok)
  \/ \E db_ok \in BOOLEAN : in_progress(db_ok)
  \/ \E content \in Contents, db_ok \in BOOLEAN : read_file(content, db_ok)
  \/ validate_data
  \/ \E db_ok \in BOOLEAN : batch_begin(db_ok)
  \/ batch_insert
  \/ \E db_ok \in BOOLEAN : batch_advance(db_ok)
  \/ \E io_ok \in BOOLEAN : archive_file(io_ok)
  \/ \E db_ok \in BOOLEAN, exit_ok \in BOOLEAN : archive_commit(db_ok, exit_ok)
  \/ \E io_ok \in BOOLEAN : handle_error(io_ok)
  \/ \E start_from_failure \in BOOLEAN : retry_failed_files(start_from_failure)
  \/ \E io_ok \in BOOLEAN, db_ok \in BOOLEAN : retry_file(io_ok, db_ok)
  \/ \E db_ok \in BOOLEAN : retry_return(db_ok)

Spec == Init /\ [][Next]_vars

\* The loader called on whole files, as load_csv_to_table does: the file
\* it is given lies in the input folder.
InitLoad ==
  /\ ledger = <<>>
  /\ table = <<>>
  /\ fs = {<<"INPUT", <<"a", 0>>>>}
  /\ Quiet

\* The parsed files handed to the loader: no row, one row, one full batch
\* or MaxChunks batches, of which the store rejects none, the first or the
\* last row; or of which the first or the last record lacks a column the
\* table requires (process_csv_file gives a short row a short record).
LoadFrames ==
  {c \in {Frame(n, TRUE, b) : n \in {0, 1, batch_size, LongFile},
                              b \in {0, 1, batch_size, LongFile}} :
     c.bad \in {0, 1, c.rows}}
  \cup {[Frame(n, TRUE, 0) EXCEPT !.lacking = [lo |-> k, hi |-> k]] :
          n \in {1, batch_size, LongFile}, k \in {1, batch_size, LongFile}}

NextLoad ==
  \E content \in LoadFrames, ncols \in FirstRows : load_csv_to_table(content, ncols)

SpecLoad == InitLoad /\ [][NextLoad]_vars

\* ------------------------------------------------ process_csv_file
\* A handler whose processed_data outlives the call: every call appends
\* to what the calls before it returned.
process_csv_file_appending ==
  /\ csv.calls < MaxParses
  /\ LET res == process_rows(csv.rows, 1, csv.out.data) IN
       csv' = [csv EXCEPT !.prev = csv.out, !.out = res, !.calls = @ + 1]
  /\ UNCHANGED <<ledger, table, fs, pc, run, cr, df, loop, err, retry, last,
                 count, gate, prep>>

\* CSVHandler.process_csv_file(file_path, table_name), lines 47-114, on
\* the rows csv.reader gives for the file (has_header is False): it opens
\* the file for reading and touches nothing else.
process_csv_file ==
  /\ csv.calls < MaxParses
  /\ LET res == process_rows(csv.rows, 1, <<>>) IN
       csv' = [csv EXCEPT !.prev = csv.out, !.out = res, !.calls = @ + 1]
  /\ UNCHANGED <<ledger, table, fs, pc, run, cr, df, loop, err, retry, last,
                 count, gate, prep>>

\* A file of the input folder is parsed, once or several times, while the
\* control table and the target table hold what an earlier run left.
InitParse ==
  /\ ledger = <<StartRow>>
  /\ table = StartTable
  /\ fs = {<<"INPUT", StartRow.file_name>>}
  /\ Idle
  /\ \E rows \in RawFiles : csv = [NoCsv EXCEPT !.rows = rows]
  /\ gate = NoGate
  /\ prep = NoPrep

NextParse == process_csv_file

SpecParse == InitParse /\ [][NextParse]_vars

\* --------------------------------------------------- validate_data
\* DataValidator.validate_data called on a frame and the columns of its
\* table.
validate_frame ==
  /\ ~gate.called
  /\ gate' = [gate EXCEPT !.called = TRUE,
                          !.results = validation_results(gate.df, gate.table_cols)]
  /\ UNCHANGED <<ledger, table, fs, pc, run, cr, df, loop, err, retry, last,
                 count, csv, prep>>

InitValidate ==
  /\ ledger = <<>>
  /\ table = <<>>
  /\ fs = {<<"INPUT", <<"a", 0>>>>}
  /\ Idle
  /\ csv = NoCsv
  /\ \E frame \in Frames, table_cols \in Schemas :
       gate = [NoGate EXCEPT !.df = frame, !.table_cols = table_cols]
  /\ prep = NoPrep

NextValidate == validate_frame

SpecValidate == InitValidate /\ [][NextValidate]_vars

\* ------------------------------------- validate_and_prepare_data
\* validate_and_prepare_data called on a list of records and the columns
\* of their table.
prepare_data ==
  /\ ~prep.called
  /\ prep' = [prep EXCEPT !.called = TRUE,
                          !.out = prepared_data(prep.data, prep.columns)]
  /\ UNCHANGED <<ledger, table, fs, pc, run, cr, df, loop, err, retry, last,
                 count, csv, gate>>

InitPrepare ==
  /\ ledger = <<>>
  /\ table = <<>>
  /\ fs = {<<"INPUT", <<"a", 0>>>>}
  /\ Idle
  /\ csv = NoCsv
  /\ gate = NoGate
  /\ \E data \in RecordLists, columns \in TableInfos :
       prep = [NoPrep EXCEPT !.data = data, !.columns = columns]

NextPrepare == prepare_data

SpecPrepare == InitPrepare /\ [][NextPrepare]_vars

\* =========================================================== claims
Stuck == {"INITIATED", "IN_PROGRESS"}

\* Rows of the target table loaded under batch_no.
Loaded(batch_no) == {k \in 1..Len(table) : table[k].batch_no = batch_no}

RECURSIVE SumRows(_)
SumRows(S) ==
  IF S = {} THEN 0
  ELSE LET k == CHOOSE x \in S : TRUE
       IN  table[k].hi - table[k].lo + 1 + SumRows(S \ {k})

\* A control row written by process_file in this model's behaviour (the
\* row found at start-up has process_id 0).
Attempts == {id \in Ids : ledger[id].process_id > 0}

Archived(name) == <<"ARCHIVE", Stamped(name)>> \in fs

ErrorRouted(name) == <<"ERROR", Stamped(name)>> \in fs

\* ---- C1.  The persisted status of a row only changes along
\* INITIATED -> IN_PROGRESS, IN_PROGRESS -> SUCCESS, IN_PROGRESS -> ERROR
\* and ERROR -> PENDING_RETRY, whatever fails; no row disappears.
Edges ==
  {<<"INITIATED", "IN_PROGRESS">>, <<"IN_PROGRESS", "SUCCESS">>,
   <<"IN_PROGRESS", "ERROR">>, <<"ERROR", "PENDING_RETRY">>}

C1_StatusEdges ==
  [][/\ Len(ledger') >= Len(ledger)
     /\ \A id \in 1..Len(ledger) :
          \/ ledger'[id].status = ledger[id].status
          \/ <<ledger[id].status, ledger'[id].status>> \in Edges]_vars

\* One row was requeued by retry and another was closed by process_file.
C1_Witness ==
  \E i \in Ids, j \in Ids :
    /\ ledger[i].status = "PENDING_RETRY"
    /\ ledger[j].status = "SUCCESS"

\* ---- C2.  Every row with status SUCCESS has loaded_rows = total_rows and
\* file_location ARCHIVE, and its file is in the archive folder; files
\* without data rows included.
C2_SuccessComplete ==
  \A id \in Attempts :
    ledger[id].status = "SUCCESS" =>
      /\ ledger[id].loaded_rows = ledger[id].total_rows
      /\ ledger[id].file_location = "ARCHIVE"
      /\ Archived(ledger[id].file_name)

\* ---- C3.  When the store rejects a row of a chunk, no row of that chunk
\* is in the target table after the insert_data call.
RejectedChunk(ins) == Statements(ins.lo, ins.hi, ins.size)[ins.failed]

C3_ChunkAllOrNothing ==
  last.ins.failed > 0 =>
    \A k \in Loaded(last.ins.batch_no) :
      \/ table[k].hi < RejectedChunk(last.ins)[1]
      \/ table[k].lo > RejectedChunk(last.ins)[2]

\* The second chunk of an attempt was rejected after its first was loaded.
C3_Witness ==
  /\ last.ins.failed > 0
  /\ last.ins.lo > 1
  /\ Loaded(last.ins.batch_no) # {}

\* ---- C4.  When insert_data is given more rows than batch_size and its
\* chunk k is rejected, the chunks 1..k-1 of the call stay committed.
C4_EarlierChunksKept ==
  last.ins.failed > 1 =>
    \A j \in 1..(last.ins.failed - 1) :
      \E k \in (last.ins.before + 1)..Len(table) :
        /\ table[k].lo = Statements(last.ins.lo, last.ins.hi, last.ins.size)[j][1]
        /\ table[k].hi = Statements(last.ins.lo, last.ins.hi, last.ins.size)[j][2]

\* ---- C5.  When chunk k of an attempt fails, the row of the attempt ends
\* with current_batch = k - 1 and loaded_rows = the rows of chunks 1..k-1.
C5_LedgerAtLastCommittedChunk ==
  (pc = "loop" /\ last.stage = "batch" /\ last.id > 0) =>
    /\ ledger[last.id].current_batch = last.failed_batch - 1
    /\ ledger[last.id].loaded_rows = (last.failed_batch - 1) * batch_size

\* ---- C6.  In every state the persisted loaded_rows of an attempt is the
\* number of rows it has committed to the target table and current_batch
\* the number of chunks it has committed.
C6_LedgerMatchesTable ==
  \A id \in Attempts :
    /\ Value(ledger[id].loaded_rows) = SumRows(Loaded(ledger[id].process_id))
    /\ Value(ledger[id].current_batch) = Cardinality(Loaded(ledger[id].process_id))

\* ---- C7.  After a failed read, validation or chunk insert the row of the
\* attempt has status ERROR, the error text, file_location ERROR, and the
\* file is in the error folder.
C7_FailureRecorded ==
  (pc = "loop" /\ last.stage \in {"read", "validation", "batch"} /\ last.id > 0) =>
    /\ ledger[last.id].status = "ERROR"
    /\ ledger[last.id].error_message = last.message
    /\ ledger[last.id].file_location = "ERROR"
    /\ ErrorRouted(ledger[last.id].file_name)

\* ---- C8.  validate_data runs once per attempt, before any row of the
\* attempt is inserted, and an attempt whose frame it rejects inserts none.
C8_ValidatedBeforeLoad ==
  /\ last.nvalid <= 1
  /\ (count.attempts > 0 /\ Loaded(count.attempts) # {}) =>
       (last.nvalid = 1 /\ last.verdict = "valid")
  /\ last.verdict = "rejected" => pc \in {"handle_error", "loop", "list", "stopped", "retry"}

\* An attempt ended on a rejected frame.
C8_Witness ==
  /\ last.verdict = "rejected"
  /\ pc = "loop"
  /\ Loaded(count.attempts) = {}
  /\ \E id \in Attempts : Loaded(ledger[id].process_id) # {}

\* ---- C9.  For each file at most one row is INITIATED or IN_PROGRESS.
C9_OneInFlightPerFile ==
  \A name \in Names :
    Cardinality({id \in Ids : ledger[id].file_name = name
                               /\ ledger[id].status \in Stuck}) <= 1

\* ---- C10.  A row becomes SUCCESS only when its file has left the input
\* folder for the archive, and ERROR only when its file is in the error
\* folder; after a failed move it becomes neither.
C10_TerminalAfterMove ==
  [][\A id \in 1..Len(ledger) :
       /\ (ledger[id].status # "SUCCESS" /\ ledger'[id].status = "SUCCESS") =>
            /\ Archived(ledger[id].file_name)
            /\ <<"INPUT", ledger[id].file_name>> \notin fs
            /\ last.stage # "archive"
       /\ (ledger[id].status # "ERROR" /\ ledger'[id].status = "ERROR") =>
            /\ ErrorRouted(ledger[id].file_name)
            /\ <<"INPUT", ledger[id].file_name>> \notin fs]_vars

\* A file was archived and its row closed; the move of another failed and
\* its row stays IN_PROGRESS.
C10_Witness ==
  /\ \E id \in Attempts :
       ledger[id].status = "SUCCESS" /\ Archived(ledger[id].file_name)
  /\ last.stage = "archive"
  /\ pc = "loop"
  /\ last.id > 0
  /\ ledger[last.id].status = "IN_PROGRESS"

\* ---- C11.  Whenever a control row is written, the folder its
\* file_location names holds the file of the row at that moment: the input
\* folder under the file's name, the archive folder under its stamped name,
\* the error folder under either name.
Located(row, store) ==
  CASE row.file_location = "INPUT"   -> <<"INPUT", row.file_name>> \in store
    [] row.file_location = "ARCHIVE" -> <<"ARCHIVE", Stamped(row.file_name)>> \in store
    [] row.file_location = "ERROR"   ->
         \/ <<"ERROR", row.file_name>> \in store
         \/ <<"ERROR", Stamped(row.file_name)>> \in store
    [] OTHER -> FALSE

C12_RetryRequeues ==
  [][(/\ pc = "retry"
      /\ pc' = "stopped"
      /\ retry.todo = <<>>
      /\ ~retry.sff
      /\ count'.faults = 0) =>
       \A id \in retry.routed :
         /\ ledger'[id].status = "PENDING_RETRY"
         /\ ledger'[id].file_location = "INPUT"
         /\ ledger'[id].current_batch = 0
         /\ ledger'[id].loaded_rows = 0
         /\ <<"INPUT", ledger'[id].file_name>> \in fs']_vars

\* ---- C13.  While retry_failed_files runs, no row that was not ERROR at
\* its query changes in any field, and the only file that moves is the
\* one in the error folder under the file_name of a row that was ERROR,
\* which goes to the input folder.
C13_RetryTouchesOnlyFailed ==
  [][(pc = "retry" \/ pc' = "retry") =>
       /\ Len(ledger') = Len(ledger)
       /\ \A id \in Ids \ (retry.scanned \cup retry'.scanned) :
            ledger'[id] = ledger[id]
       /\ fs' # fs =>
            \E id \in retry.scanned :
              /\ <<"ERROR", ledger[id].file_name>> \in fs
              /\ fs' = (fs \ {<<"ERROR", ledger[id].file_name>>})
                          \cup {<<"INPUT", ledger[id].file_name>>}]_vars

\* A retry has requeued and reset the row that was ERROR while the table
\* also held a row that was not.
C13_Witness ==
  /\ pc = "retry"
  /\ retry.todo = <<>>
  /\ Ids \ retry.scanned # {}
  /\ \E id \in retry.scanned :
       /\ ledger[id].status = "PENDING_RETRY"
       /\ ledger[id].current_batch = 0

\* ---- C14.  The persisted current_batch of a row never decreases, through
\* loading, error closing and any later retry of the row.
C14_NeverDecreases ==
  [][\A id \in 1..Len(ledger) :
       ledger'[id].current_batch >= ledger[id].current_batch]_vars

\* ---- C14, as the code has it.  The persisted current_batch of a row
\* never decreases while it is loaded and closed; its only decrease is the
\* reset to 0 that retry_failed_files(start_from_failure = FALSE) commits
\* on a row that was ERROR at its query.
C14_DecreasesOnlyByReset ==
  [][\A id \in 1..Len(ledger) :
       \/ ledger'[id].current_batch >= ledger[id].current_batch
       \/ /\ pc = "retry"
          /\ ~retry.sff
          /\ id \in retry.scanned
          /\ ledger'[id].current_batch = 0]_vars

\* One row was reset by a retry and another was loaded up to its last
\* batch.
C14_Witness ==
  \E i \in Ids, j \in Attempts :
    /\ ledger[i].process_id = 0
    /\ ledger[i].current_batch = 0
    /\ ledger[j].current_batch = MaxChunks

\* ---- C15.  While a file is loaded, the persisted current_batch of its row
\* is the number of chunks the attempt has committed to the target table;
\* on a SUCCESS row it is the number of chunks of the file.
Chunks(n) == (n + batch_size - 1) \div batch_size

C15_BatchCountsCommittedChunks ==
  /\ (pc \in {"batch", "insert", "advance", "success"} /\ cr.id > 0) =>
       Value(ledger[cr.id].current_batch) = Cardinality(Loaded(cr.row.process_id))
  /\ \A id \in Attempts :
       ledger[id].status = "SUCCESS" =>
         Value(ledger[id].current_batch) = Chunks(ledger[id].total_rows)

\* ---- C16.  On every row on which loaded_rows and total_rows are both
\* set, loaded_rows <= total_rows.
C16_LoadedAtMostTotal ==
  \A id \in Ids :
    (ledger[id].loaded_rows # Null /\ ledger[id].total_rows # Null) =>
      ledger[id].loaded_rows <= ledger[id].total_rows

\* One attempt loaded its whole file, another stopped after a part of it.
C16_Witness ==
  \E i \in Attempts, j \in Attempts :
    /\ ledger[i].total_rows > 0
    /\ ledger[i].loaded_rows = ledger[i].total_rows
    /\ ledger[j].loaded_rows # Null
    /\ ledger[j].loaded_rows < ledger[j].total_rows

\* ---- C17.  In a pattern run the listed files are attempted one by one in
\* list order, each once: the loop does nothing but attempt the head of
\* the list, and an attempt, however it ends (the move to the error folder
\* failing included), leaves the rest of the list as it is and returns to
\* the loop.  Only the termination of the process ends a run early.
AttemptPcs ==
  {"in_progress", "read", "validate", "batch", "insert", "advance", "success",
   "handle_error"}

Terminated ==
  /\ pc' = "stopped"
  /\ run' = NoRun
  /\ count'.faults = count.faults + 1

C17_EveryListedFileAttempted ==
  [][~Terminated =>
       /\ \A i \in 1..Len(run.files), j \in 1..Len(run.files) :
            i # j => run.files[i] # run.files[j]
       /\ (pc = "loop" /\ run.files # <<>>) =>
            /\ pc' \in {"in_progress", "handle_error"}
            /\ cr'.row.file_name = Head(run.files)
            /\ run' = [run EXCEPT !.files = Tail(@)]
       /\ pc \in AttemptPcs =>
            /\ run' = run
            /\ pc' \in AttemptPcs \cup {"loop"}]_vars

\* The first attempt of a run failed and so did the move of its file to
\* the error folder; the second file of the list is being attempted.
C17_Witness ==
  /\ pc \in AttemptPcs
  /\ run.pat = 1
  /\ run.files = <<>>
  /\ count.faults = 1
  /\ Len(ledger) = 2
  /\ ledger[1].process_id = 1
  /\ ledger[1].status = "IN_PROGRESS"
  /\ <<"INPUT", ledger[1].file_name>> \in fs
  /\ cr.id = 2
  /\ ledger[2].file_name # ledger[1].file_name

\* ---- C18.  When the process was never terminated and no commit or move
\* failed, every attempt process_file has returned from has a row that is
\* closed: SUCCESS or ERROR (or PENDING_RETRY after a later retry), never
\* INITIATED or IN_PROGRESS.
C18_AttemptsAreClosed ==
  (count.faults = 0 /\ pc \in {"loop", "list", "stopped", "retry"}) =>
    \A id \in Attempts :
      ledger[id].status \in {"SUCCESS", "ERROR", "PENDING_RETRY"}

\* ---- C19.  No step removes or replaces a row; every call of process_file
\* adds exactly one row, whose process_id no earlier row has, and no other
\* step adds one; a PENDING_RETRY row is never written again, so a
\* requeued file is processed under a row of its own.
ProcessFileCalled == pc = "loop" /\ pc' \in {"in_progress", "handle_error"}

RowsKept ==
  /\ Len(ledger') >= Len(ledger)
  /\ \A id \in 1..Len(ledger) :
       /\ ledger'[id].process_id = ledger[id].process_id
       /\ ledger'[id].file_name = ledger[id].file_name
       /\ ledger[id].status = "PENDING_RETRY" => ledger'[id] = ledger[id]

OneFreshRow ==
  /\ Len(ledger') = Len(ledger) + 1
  /\ \A id \in 1..Len(ledger) :
       /\ ledger'[id] = ledger[id]
       /\ ledger'[Len(ledger')].process_id # ledger[id].process_id

C20_ShortFileErrorRouted ==
  last.stage = "schema" =>
    /\ Len(table) = last.ins.before
    /\ \E name \in Names : <<"ERROR", name>> \in fs
    /\ \E id \in Ids : ledger[id].status = "ERROR"

\* ---- C21.  When a row of the parsed file has an empty value for a
\* required column, or is too short to have one, process_csv_file raises;
\* when nothing else is wrong with the file the error is the required-field
\* error naming the first such row and column; a required-field error
\* names a row and a column where the value is empty or absent; and no
\* record that is returned lacks a required column.
Required == {k \in 1..Len(column_mappings) : column_mappings[k].required}

Absent(row, k) == column_mappings[k].column_index >= Len(row)

Empty(row, k) == ~Absent(row, k) /\ strip(row[column_mappings[k].column_index + 1]) = ""

Lacking(rows) ==
  {<<r, k>> \in (1..Len(rows)) \X Required : Absent(rows[r], k) \/ Empty(rows[r], k)}

\* The first row, and in it the first column, of a set of places.
FirstOf(places) ==
  CHOOSE p \in places :
    \A q \in places :
      \/ p[1] < q[1]
      \/ p[1] = q[1] /\ column_mappings[p[2]].column_index
                          <= column_mappings[q[2]].column_index

Convertible(rows) ==
  \A r \in 1..Len(rows), k \in 1..Len(column_mappings) :
    ~Absent(rows[r], k) =>
      convert_data_type(rows[r][column_mappings[k].column_index + 1],
                        column_mappings[k].data_type).ok

C21_RequiredFieldMissing ==
  csv.calls > 0 =>
    /\ Lacking(csv.rows) # {} => ~csv.out.ok
    /\ (Lacking(csv.rows) # {} /\ Convertible(csv.rows)) =>
         csv.out.error =
           [kind |-> "required", row_num |-> FirstOf(Lacking(csv.rows))[1],
            db_column |-> column_mappings[FirstOf(Lacking(csv.rows))[2]].db_column]
    /\ csv.out.error.kind = "required" =>
         \E p \in Lacking(csv.rows) :
           /\ p[1] = csv.out.error.row_num
           /\ column_mappings[p[2]].db_column = csv.out.error.db_column
    /\ csv.out.ok =>
         \A i \in 1..Len(csv.out.data), k \in Required :
           column_mappings[k].db_column \in DOMAIN csv.out.data[i]

\* ---- C23.  A field of a boolean column is converted to True when its
\* lower case is one of true, 1, yes, y, and to False for every other
\* value; no value of a boolean column makes the call raise.
Booleans == {k \in 1..Len(column_mappings) : column_mappings[k].data_type = "boolean"}

C23_BooleanCoercion ==
  csv.calls > 0 =>
    /\ \A k \in Booleans : csv.out.error.db_column # column_mappings[k].db_column
    /\ csv.out.ok =>
         \A r \in 1..Len(csv.rows), k \in Booleans :
           ~Absent(csv.rows[r], k) =>
             csv.out.data[r][column_mappings[k].db_column] =
               Py("bool",
                  IF lower(csv.rows[r][column_mappings[k].column_index + 1])
                       \in {"true", "1", "yes", "y"}
                    THEN "True" ELSE "False")

Checked(frame, table_cols) ==
  {k \in 1..Len(df_columns) : df_columns[k] \in DOMAIN table_cols}

Failing(frame, table_cols, k) ==
  LET col == df_columns[k]
      t   == table_cols[col]
  IN  CASE t.name = "INTEGER" ->
             {i \in 1..Len(frame) : ~str_match_digits(astype_str(frame[i][col]))}
        [] t.name = "DATE" ->
             {i \in 1..Len(frame) : ~to_datetime_ok(frame[i][col])}
        [] t.name = "VARCHAR" ->
             {i \in 1..Len(frame) : str_len(astype_str(frame[i][col])) > t.length}
        [] OTHER -> {}

Violated(frame, table_cols) ==
  {df_columns[k] : k \in {j \in Checked(frame, table_cols) :
                            Failing(frame, table_cols, j) # {}}}
  \cup (IF \E i \in 1..Len(frame) : \A c \in DOMAIN frame[i] : frame[i][c] = "NaN"
          THEN {"none"} ELSE {})

C30_AllChecksCollected ==
  gate.called =>
    /\ ~gate.results.raised
    /\ {gate.results.errors[i].col : i \in 1..Len(gate.results.errors)}
         = Violated(gate.df, gate.table_cols)
    /\ gate.results.is_valid = (gate.results.errors = <<>>)

\* ---- C22.  When one of the rows given to insert_data lacks a column of
\* the table that is NOT NULL and has no default, the call raises in
\* validate_and_prepare_data before any statement is sent, and adds no row
\* to the table: none of the call, and none under its batch number.
C22_MissingColumnFailsWholeLoad ==
  Among(last.ins.lacking, last.ins.lo, last.ins.hi) =>
    /\ ~last.ins.prepared
    /\ last.ins.flushed = 0
    /\ Len(table) = last.ins.before
    /\ last.ins.batch_no # Null => Loaded(last.ins.batch_no) = {}

\* The last record of a file of MaxChunks batches lacks the column, and
\* the table holds the rows of an earlier call.
C22_Witness ==
  /\ last.ins.lacking.lo = LongFile
  /\ last.ins.hi = LongFile
  /\ ~last.ins.prepared
  /\ table # <<>>

\* ---- C25.  When _retry_file handles a row whose file lies in the error
\* folder under the name _handle_error gave it, and neither the move nor
\* the commit fails, the file leaves that path and is in the input folder
\* under the file_name of the row.
C25_RetryUndoesErrorRouting ==
  [][(/\ pc = "retry"
      /\ retry.todo # <<>>
      /\ retry'.todo = Tail(retry.todo)
      /\ Head(retry.todo) \in retry.routed
      /\ count'.faults = count.faults) =>
       /\ <<"ERROR", Stamped(ledger[Head(retry.todo)].file_name)>> \notin fs'
       /\ <<"INPUT", ledger[Head(retry.todo)].file_name>> \in fs']_vars

\* ---- C26.  The row process_file adds has loaded_rows and current_batch
\* unset, and the first insert_data call of an attempt takes the rows of
\* the file from the first one on, also when an earlier row of the same
\* file was requeued, with its counters kept or reset.
C26_NewAttemptStartsAfresh ==
  [][/\ (pc = "loop" /\ pc' = "in_progress") =>
          /\ ledger'[Len(ledger')].loaded_rows = Null
          /\ ledger'[Len(ledger')].current_batch = Null
          /\ cr'.row = ledger'[Len(ledger')]
     /\ (pc = "validate" /\ pc' = "batch") => loop' = [i |-> 0, total_loaded |-> 0]
     /\ (pc = "insert" /\ pc' \in {"advance", "handle_error"}
           /\ cr.row.loaded_rows = Null) =>
          /\ last'.ins.batch_no = cr.row.process_id
          /\ last'.ins.lo = 1
          /\ \A k \in (Len(table) + 1)..Len(table') :
               table'[k].batch_no = cr.row.process_id /\ table'[k].lo = 1]_vars

\* A file requeued with its counters kept at the second batch is loaded
\* again under a new row, from its first row on.
C26_Witness ==
  \E i \in Ids, j \in Attempts :
    /\ ledger[i].status = "PENDING_RETRY"
    /\ ledger[i].current_batch = StartRow.current_batch
    /\ i < j
    /\ ledger[j].file_name = ledger[i].file_name
    /\ \E k \in Loaded(ledger[j].process_id) : table[k].lo = 1

\* ---- C27.  From its query to its return retry_failed_files reads no
\* file, inserts no row into the target table and adds no control row; no
\* process_file or load_csv_to_table call is made on its behalf.
C27_RetryLoadsNothing ==
  [][(pc = "retry" \/ pc' = "retry") =>
       /\ table' = table
       /\ Len(ledger') = Len(ledger)
       /\ df = NoFrame
       /\ df' = NoFrame
       /\ count'.attempts = count.attempts
       /\ count'.loads = count.loads]_vars

\* A retry has requeued a file and returned: the control table and the
\* target table have the rows they had at start-up.
C27_Witness ==
  /\ pc = "stopped"
  /\ count.attempts = 0
  /\ Len(ledger) = 1
  /\ ledger[1].status = "PENDING_RETRY"
  /\ ledger[1].file_location = "INPUT"
  /\ <<"INPUT", ledger[1].file_name>> \in fs
  /\ table = StartTable

\* ---- C28.  While retry_failed_files(start_from_failure = TRUE) runs, no
\* row changes its current_batch or its loaded_rows; a retry changes them
\* only when start_from_failure is FALSE, only on a row that was ERROR at
\* its query, and only to 0, both together.
C28_ResumeKeepsCounters ==
  [][(pc = "retry" \/ pc' = "retry") =>
       \A id \in 1..Len(ledger) :
         \/ /\ ledger'[id].current_batch = ledger[id].current_batch
            /\ ledger'[id].loaded_rows = ledger[id].loaded_rows
         \/ /\ ~retry.sff
            /\ id \in retry.scanned
            /\ ledger'[id].current_batch = 0
            /\ ledger'[id].loaded_rows = 0]_vars

\* A row was requeued by a retry with start_from_failure = TRUE and has
\* the counters it had as an ERROR row.
C28_Witness ==
  /\ pc = "retry"
  /\ retry.sff
  /\ \E id \in retry.scanned :
       /\ ledger[id].status = "PENDING_RETRY"
       /\ ledger[id].current_batch = StartRow.current_batch
       /\ ledger[id].loaded_rows = StartRow.loaded_rows

\* ---- C29.  The rows an attempt has inserted are the first batches of its
\* file, without a gap; once a batch of the attempt has failed, the
\* attempt sends no further batch and its rows all lie before the failed
\* batch.
C29_InsertedRowsArePrefix ==
  /\ \A id \in Attempts :
       \A k \in Loaded(ledger[id].process_id) :
         \/ table[k].lo = 1
         \/ \E j \in Loaded(ledger[id].process_id) :
              j < k /\ table[j].hi + 1 = table[k].lo
  /\ last.failed_batch > 0 =>
       /\ pc \notin {"batch", "insert", "advance", "success"}
       /\ \A k \in Loaded(last.ins.batch_no) :
            table[k].hi < (last.failed_batch - 1) * batch_size + 1

\* The last batch of an attempt failed after the batches before it were
\* inserted, and process_file has returned.
C29_Witness ==
  /\ pc = "loop"
  /\ last.failed_batch = MaxChunks
  /\ Cardinality(Loaded(last.ins.batch_no)) = MaxChunks - 1
  /\ last.ins.batch_no = count.attempts

\* The columns of the table, and what a record lacks of them.
TableColumns == {table_columns[k] : k \in 1..Len(table_columns)}

Defaulted(columns, col) == columns[col].default # "None"

Unfillable(record, columns) ==
  {col \in TableColumns \ DOMAIN record :
     ~Defaulted(columns, col) /\ ~columns[col].nullable}

\* What the reconciliation owes one column of one record.
Reconciled(record, columns, out, col) ==
  IF col \in DOMAIN record
    THEN col \in DOMAIN out /\ out[col] = record[col]
  ELSE IF Defaulted(columns, col)
    THEN col \notin DOMAIN out
  ELSE IF columns[col].nullable
    THEN col \in DOMAIN out /\ out[col] = None
  ELSE FALSE

\* C31: schema reconciliation maps each input record to a record in which,
\* for every column of the table, the record's value is kept when the column
\* is present, the column is omitted when it is absent and has a default, and
\* the column is null when it is absent, has no default and is nullable; the
\* output has as many records as the input, in the same order, and no key
\* that is not a column of the table.  It fails only on a record that lacks
\* a column with neither default nor null.
C31_SchemaReconciliation ==
  prep.called =>
    /\ prep.out.ok <=>
         \A i \in 1..Len(prep.data) : Unfillable(prep.data[i], prep.columns) = {}
    /\ prep.out.ok =>
         /\ Len(prep.out.data) = Len(prep.data)
         /\ \A i \in 1..Len(prep.data) :
              /\ DOMAIN prep.out.data[i] \subseteq TableColumns
              /\ \A col \in TableColumns :
                   Reconciled(prep.data[i], prep.columns, prep.out.data[i], col)

C31_Witness ==
  /\ prep.called
  /\ prep.out.ok
  /\ Len(prep.data) = MaxRows
  /\ prep.data[1] # prep.data[MaxRows]
  /\ \E i \in 1..Len(prep.data) :
       "extra" \in DOMAIN prep.data[i] /\ "id" \in DOMAIN prep.out.data[i]
                                       /\ prep.out.data[i]["id"] = Py("int", "1")
  /\ \E i \in 1..Len(prep.data), col \in TableColumns :
       /\ col \notin DOMAIN prep.data[i]
       /\ Defaulted(prep.columns, col)
       /\ prep.columns[col].nullable
       /\ col \notin DOMAIN prep.out.data[i]
  /\ \E i \in 1..Len(prep.data), col \in TableColumns :
       /\ col \notin DOMAIN prep.data[i]
       /\ ~Defaulted(prep.columns, col)
       /\ prep.out.data[i][col] = None

\* ---- C32.  While retry_failed_files runs, a row is written only by the
\* step of _retry_file that moved its file back to the input folder: a row
\* whose move failed stays as it was, status ERROR, file_location ERROR,
\* current_batch and loaded_rows untouched, for either value of
\* start_from_failure.
C32_FailedMoveLeavesRecord ==
  [][pc = "retry" =>
       \A id \in Ids :
         ledger'[id] # ledger[id] =>
           /\ retry.todo # <<>>
           /\ id = Head(retry.todo)
           /\ fs' = move_file(<<"ERROR", ledger[id].file_name>>,
                              <<"INPUT", ledger[id].file_name>>)
           /\ fs' # fs]_vars

\* An attempt whose batches have all been inserted: the loop of
\* _process_batches is exhausted (line 128), the file is being archived,
\* or the row was closed as SUCCESS.
Finished(id) ==
  \/ ledger[id].status = "SUCCESS"
  \/ pc = "success" /\ cr.id = id
  \/ pc = "batch" /\ loop.i >= df.rows /\ cr.id = id

\* ---- C33.  When an attempt on a file of N rows has succeeded, the rows
\* it put into the target table are chunks of at most batch_size rows,
\* in file order, the first from row 1 and each next one from the row after
\* the one before; no row of the file is in two chunks, and together the
\* chunks hold the N rows of the file.
C33_ChunksPartitionFile ==
  \A id \in Attempts :
    Finished(id) =>
      LET mine == Loaded(ledger[id].process_id)
          N    == ledger[id].total_rows
      IN  /\ N # Null
          /\ \A k \in mine :
               /\ 1 <= table[k].lo
               /\ table[k].lo <= table[k].hi
               /\ table[k].hi <= N
               /\ table[k].hi - table[k].lo + 1 <= batch_size
               /\ \/ table[k].lo = 1
                  \/ \E j \in mine : j < k /\ table[j].hi + 1 = table[k].lo
          /\ \A j \in mine, k \in mine :
               j < k => table[j].hi < table[k].lo
          /\ Cardinality(mine) = Chunks(N)
          /\ SumRows(mine) = N

\* An attempt on a file of more than one chunk has succeeded, in a table
\* that already held the rows of an earlier attempt.
C33_Witness ==
  \E id \in Attempts :
    /\ ledger[id].status = "SUCCESS"
    /\ ledger[id].total_rows = LongFile
    /\ Cardinality(Loaded(ledger[id].process_id)) = MaxChunks
    /\ Loaded(StartRow.process_id) # {}
    /\ \E k \in Loaded(ledger[id].process_id) :
         table[k].hi - table[k].lo + 1 < batch_size

\* The rows of the target table an attempt has committed.
Committed(id) == SumRows(Loaded(ledger[id].process_id))

====
